---- MODULE Spec2Model ----
(***************************************************************************)
(* The application supervisor of go-service (package app): the registry of *)
(* background jobs, Run's fan-out of one goroutine per job over a shared   *)
(* cancellable context, its select between cancellation and the first      *)
(* result, and the four jobs New registers (gRPC start/stop, HTTP          *)
(* start/stop) together with the parts of grpc.Server and http.Server that *)
(* those jobs drive.                                                       *)
(***************************************************************************)
EXTENDS Naturals, Sequences, FiniteSets

\* How many jobs AddBackgroundJob may add on top of the four New registers.
MaxUserJobs == 1

VARIABLES
    jobs,            \* app.jobs: the registry, a sequence of job kinds
    ctxDone,         \* app.ctx is cancelled
    runPc,           \* where Run is: idle, spawn, select, wait, returned
    ranged,          \* the slice Run's range statement iterates (app.jobs at entry)
    errCap,          \* cap(errChannel)
    nextJob,         \* index of the next job the loop starts
    wg,              \* the WaitGroup's counter
    errChannel,      \* the buffered values of errChannel, oldest first
    closed,          \* errChannel is closed
    branch,          \* the select case Run took: none, cancel, first
    selCancelled,    \* whether app.ctx was cancelled when the select fired
    runResult,       \* Run's return value
    pc,              \* per started job: the position of its goroutine
    result,          \* per started job: what job(ctx) returned
    calls,           \* per started job: the contexts it was invoked with
    firstSender,     \* the goroutine whose result entered errChannel first (0: none yet)
    grpcStopped,     \* grpc.Server: Stop/GracefulStop has run (s.lis == nil)
    inflight,        \* grpc.Server: some RPC call is being handled
    httpInShutdown,  \* http.Server: Shutdown has run (srv.inShutdown)
    httpServeErr,    \* what httpServer.ListenAndServe returned (nil: not yet)
    call             \* the last handler-level call (Error, interceptor, /health) and its outcome

vars == <<jobs, ctxDone, runPc, ranged, errCap, nextJob, wg, errChannel, closed,
          branch, selCancelled, runResult, pc, result, calls,
          firstSender, grpcStopped, inflight, httpInShutdown,
          httpServeErr, call>>

runVars == <<runPc, ranged, errCap, nextJob, branch, selCancelled, runResult>>
srvVars == <<grpcStopped, inflight, httpInShutdown>>

\* Everything the supervisor and its jobs touch.
supVars == <<jobs, ctxDone, runVars, wg, errChannel, closed, pc, result, calls,
             firstSender, srvVars, httpServeErr>>

NoCall == [op |-> "none"]

----------------------------------------------------------------------------
\* Error values.  An error is a sequence of atoms <<job, message, cause>>;
\* nil is the empty sequence, a multierr has two atoms or more.

Nil == <<>>

Err(j, msg, cause) == << <<j, msg, cause>> >>

\* errors.Wrap: nil stays nil, anything else gets the message in front.
Wrap(err, msg) ==
    IF err = Nil THEN Nil
    ELSE [k \in 1..Len(err) |-> <<err[k][1], msg, err[k][3]>>]

RECURSIVE Flatten(_)
Flatten(errs) ==
    IF errs = <<>> THEN <<>> ELSE Head(errs) \o Flatten(Tail(errs))

IsNonNil(e) == e # Nil

\* A plausible slip: only the first non-nil error survives.
CombineFirstOnly(errs) ==
    LET nn == SelectSeq(errs, IsNonNil)
    IN  IF nn = <<>> THEN Nil ELSE Head(nn)

\* multierr.Combine: nil entries are skipped; no error left is nil, one is
\* returned as it is, several become one multierr listing them in order.
Combine(errs) == Flatten(SelectSeq(errs, IsNonNil))

\* The atoms of an error, as a set.
Atoms(e) == {e[k] : k \in 1..Len(e)}

----------------------------------------------------------------------------
\* New: the four jobs registerGRPCServer and registerHTTPServer add.

BootJobs == <<"grpcStart", "grpcStop", "httpStart", "httpStop">>

AppCtx == "app.ctx"

\* The goroutines Run starts, one per entry of the ranged slice.
JobIds == 1..Len(ranged)

\* Every index a job can have.
AllIds == 1..(Len(BootJobs) + MaxUserJobs)

Init ==
    /\ jobs = BootJobs
    /\ ctxDone = FALSE
    /\ runPc = "idle"
    /\ ranged = <<>>
    /\ errCap = 0
    /\ nextJob = 1
    /\ wg = 0
    /\ errChannel = <<>>
    /\ closed = FALSE
    /\ branch = "none"
    /\ selCancelled = FALSE
    /\ runResult = Nil
    /\ pc = <<>>
    /\ result = <<>>
    /\ calls = <<>>
    /\ firstSender = 0
    /\ grpcStopped = FALSE
    /\ inflight = FALSE
    /\ httpInShutdown = FALSE
    /\ httpServeErr = Nil
    /\ call = NoCall

----------------------------------------------------------------------------
\* AddBackgroundJob: appends, whatever Run is doing; it returns nothing.
\* Before Run it is main's goroutine that calls it; once Run has begun the
\* callers are the goroutines Run started (jobs, and the handlers the servers
\* run), so at least one of them exists.
AddBackgroundJob ==
    /\ Len(jobs) < Len(BootJobs) + MaxUserJobs
    /\ runPc = "idle" \/ \E j \in JobIds : pc[j] # "none"
    /\ jobs' = Append(jobs, "user")
    /\ UNCHANGED <<call, httpServeErr, ctxDone, runVars, wg, errChannel, closed, pc, result,
                   calls, firstSender, srvVars>>

\* The signal context of main: SIGINT or SIGTERM cancels app.ctx.
Cancel ==
    /\ ~ctxDone
    /\ ctxDone' = TRUE
    /\ UNCHANGED <<call, httpServeErr, jobs, runVars, wg, errChannel, closed, pc, result,
                   calls, firstSender, srvVars>>

----------------------------------------------------------------------------
\* Run.

\* A channel one slot short of the job count.
ChanCapShort(js) == Len(js) - 1

\* make(chan error, len(app.jobs))
ChanCap(js) == Len(js)

\* The loop variable captured by the closure instead of passed to it: every
\* goroutine would run the last job.
JobOfCaptured(i) == Len(ranged)

\* go func(job backgroundJob) {...}(job): goroutine i runs the i-th job.
JobOf(i) == i

Kind(i) == ranged[JobOf(i)]

\* Where each kind of job begins.
Entry(kind) ==
    CASE kind \in {"grpcStart", "httpStart"} -> "listen"
      [] kind \in {"grpcStop", "httpStop"} -> "waitctx"
      [] OTHER -> "running"

\* A shutdown job going on without the context being cancelled.
DoneReceivedAlways(done) == TRUE

\* <-ctx.Done() in a shutdown job: passes once the context is cancelled.
DoneReceived(done) == done

\* Taking the newest buffered value instead of the oldest.
RecvNewest(ch) == ch[Len(ch)]

\* err := <-errChannel: the oldest buffered value.
Recv(ch) == Head(ch)

\* Not waiting at all.
WaitDoneNoWait(n) == TRUE

\* wg.Wait() returns once the counter is zero.
WaitDone(n) == n = 0

\* The values never appended to the slice made for them.
CollectedNotAppended(ch) == [k \in 1..Len(ch) |-> Nil]

\* errs := make([]error, len(errChannel)), then every value of the closed
\* channel appended: as many nil entries as values, then the values.
Collected(ch) == [k \in 1..Len(ch) |-> Nil] \o ch

\* Run's entry: the log line, the WaitGroup, the channel, and the range
\* expression, which Go evaluates once.
RunBegin ==
    /\ runPc = "idle"
    /\ runPc' = "spawn"
    /\ ranged' = jobs
    /\ errCap' = ChanCap(jobs)
    /\ nextJob' = 1
    /\ pc' = [j \in 1..Len(jobs) |-> "none"]
    /\ result' = [j \in 1..Len(jobs) |-> Nil]
    /\ calls' = [j \in 1..Len(jobs) |-> <<>>]
    /\ UNCHANGED <<call, httpServeErr, jobs, ctxDone, wg, errChannel, closed, branch, selCancelled,
                   runResult, firstSender, srvVars>>

\* One iteration of the loop: wg.Add(1) and the go statement, which starts
\* a goroutine that calls job(app.ctx).
RunSpawn ==
    /\ runPc = "spawn"
    /\ nextJob <= Len(ranged)
    /\ wg' = wg + 1
    /\ pc' = [pc EXCEPT ![nextJob] = Entry(Kind(nextJob))]
    /\ calls' = [calls EXCEPT ![JobOf(nextJob)] = Append(@, AppCtx)]
    /\ nextJob' = nextJob + 1
    /\ runPc' = IF nextJob + 1 > Len(ranged) THEN "select" ELSE "spawn"
    /\ UNCHANGED <<call, httpServeErr, jobs, ctxDone, ranged, errCap, errChannel, closed, branch,
                   selCancelled, runResult, result, firstSender,
                   srvVars>>

\* select, case <-app.ctx.Done(): ready once the context is cancelled.
RunSelectCancel ==
    /\ runPc = "select"
    /\ ctxDone
    /\ runPc' = "wait"
    /\ branch' = "cancel"
    /\ selCancelled' = TRUE
    /\ UNCHANGED <<call, httpServeErr, jobs, ctxDone, ranged, errCap, nextJob, wg, errChannel,
                   closed, runResult, pc, result, calls,
                   firstSender, srvVars>>

\* select, case err := <-errChannel: ready once a value is buffered.  With
\* both cases ready Go picks either.
RunSelectFirst ==
    /\ runPc = "select"
    /\ errChannel # <<>>
    /\ runResult' = Recv(errChannel)
    /\ errChannel' = Tail(errChannel)
    /\ runPc' = "returned"
    /\ branch' = "first"
    /\ selCancelled' = ctxDone
    /\ UNCHANGED <<call, httpServeErr, jobs, ctxDone, ranged, errCap, nextJob, wg, closed, pc,
                   result, calls, firstSender, srvVars>>

\* The cancellation branch after the select: wg.Wait(), close, collect,
\* multierr.Combine.
RunCollect ==
    /\ runPc = "wait"
    /\ WaitDone(wg)
    /\ closed' = TRUE
    /\ runResult' = Combine(Collected(errChannel))
    /\ errChannel' = <<>>
    /\ runPc' = "returned"
    /\ UNCHANGED <<call, httpServeErr, jobs, ctxDone, ranged, errCap, nextJob, wg, branch,
                   selCancelled, pc, result, calls, firstSender,
                   srvVars>>

----------------------------------------------------------------------------
\* The goroutine Run starts for each job: job(app.ctx), the send, wg.Done().

Return(i, r) ==
    /\ pc' = [pc EXCEPT ![i] = "ret"]
    /\ result' = [result EXCEPT ![i] = r]

\* errChannel <- job(app.ctx), then the deferred wg.Done().  A send on a
\* closed channel panics; a send on a full channel blocks.
JobSend(i) ==
    /\ i \in JobIds
    /\ pc[i] = "ret"
    /\ IF closed
       THEN /\ pc' = [pc EXCEPT ![i] = "panic"]
            /\ UNCHANGED <<errChannel, firstSender, wg>>
       ELSE /\ Len(errChannel) < errCap
            /\ errChannel' = Append(errChannel, result[i])
            /\ firstSender' = IF firstSender = 0 THEN i ELSE firstSender
            /\ wg' = wg - 1
            /\ pc' = [pc EXCEPT ![i] = "done"]
    /\ UNCHANGED <<call, httpServeErr, jobs, ctxDone, runVars, closed, result, calls,
                   srvVars>>

\* A job added through AddBackgroundJob: any function of the context; it
\* may return at any time, nil or an error.
UserReturn(i) ==
    /\ i \in JobIds
    /\ Kind(i) = "user"
    /\ pc[i] = "running"
    /\ \E r \in {Nil, Err(JobOf(i), "", "job failed")} : Return(i, r)
    /\ UNCHANGED <<call, httpServeErr, jobs, ctxDone, runVars, wg, errChannel, closed, calls,
                   firstSender, srvVars>>

----------------------------------------------------------------------------
\* registerGRPCServer: the start job and the shutdown job.

ErrServerStopped(j) == Err(j, "", "grpc: the server has been stopped")

\* Serve reporting nil however it ends.
ServeExitAlwaysNil(j, stopped) == Nil

\* grpc.Server.Serve leaving its accept loop: nil when the server was
\* stopped (the listener was closed by the stop), the accept error otherwise.
ServeExit(j, stopped) ==
    IF stopped THEN Nil ELSE Err(j, "", "accept failed")

\* net.Listen: the port is bound, or the job returns the wrapped error.
GrpcListen(i) ==
    /\ i \in JobIds
    /\ Kind(i) = "grpcStart"
    /\ pc[i] = "listen"
    /\ \/ /\ pc' = [pc EXCEPT ![i] = "serve"]
          /\ UNCHANGED result
       \/ Return(i, Wrap(Err(JobOf(i), "", "listen failed"),
                         "could not open GRPC port to serve"))
    /\ UNCHANGED <<call, httpServeErr, jobs, ctxDone, runVars, wg, errChannel, closed, calls,
                   firstSender, srvVars>>

\* app.grpc.Serve(listener) is entered: a server already stopped refuses
\* with ErrServerStopped, which the job wraps and returns.
GrpcServe(i) ==
    /\ i \in JobIds
    /\ Kind(i) = "grpcStart"
    /\ pc[i] = "serve"
    /\ IF grpcStopped
       THEN Return(i, Wrap(ErrServerStopped(JobOf(i)), "GRPC server error"))
       ELSE /\ pc' = [pc EXCEPT ![i] = "serving"]
            /\ UNCHANGED result
    /\ UNCHANGED <<call, httpServeErr, jobs, ctxDone, runVars, wg, errChannel, closed, calls,
                   firstSender, srvVars>>

\* Serve returns: after a stop, or on a fatal accept error.
GrpcServeReturn(i) ==
    /\ i \in JobIds
    /\ Kind(i) = "grpcStart"
    /\ pc[i] = "serving"
    /\ Return(i, Wrap(ServeExit(JobOf(i), grpcStopped), "GRPC server error"))
    /\ UNCHANGED <<call, httpServeErr, jobs, ctxDone, runVars, wg, errChannel, closed, calls,
                   firstSender, srvVars>>

\* A unary call arrives at the serving server while none is in flight.
RpcBegin ==
    /\ \E i \in JobIds : Kind(i) = "grpcStart" /\ pc[i] = "serving"
    /\ ~grpcStopped
    /\ ~inflight
    /\ inflight' = TRUE
    /\ UNCHANGED <<call, httpServeErr, jobs, ctxDone, runVars, wg, errChannel, closed, pc, result,
                   calls, firstSender, grpcStopped, httpInShutdown>>

\* The last call in flight finishes.
RpcEnd ==
    /\ inflight
    /\ inflight' = FALSE
    /\ UNCHANGED <<call, httpServeErr, jobs, ctxDone, runVars, wg, errChannel, closed, pc, result,
                   calls, firstSender, grpcStopped, httpInShutdown>>

\* <-ctx.Done(), then GracefulStop is called: the server stops accepting.
GrpcStopBegin(i) ==
    /\ i \in JobIds
    /\ Kind(i) = "grpcStop"
    /\ pc[i] = "waitctx"
    /\ DoneReceived(ctxDone)
    /\ pc' = [pc EXCEPT ![i] = "stopping"]
    /\ grpcStopped' = TRUE
    /\ UNCHANGED <<call, httpServeErr, jobs, ctxDone, runVars, wg, errChannel, closed, result,
                   calls, firstSender, inflight, httpInShutdown>>

\* GracefulStop returns once no call is in flight; the job returns nil.
GrpcStopEnd(i) ==
    /\ i \in JobIds
    /\ Kind(i) = "grpcStop"
    /\ pc[i] = "stopping"
    /\ ~inflight
    /\ Return(i, Nil)
    /\ UNCHANGED <<call, httpServeErr, jobs, ctxDone, runVars, wg, errChannel, closed, calls,
                   firstSender, srvVars>>

----------------------------------------------------------------------------
\* registerHTTPServer: the start job and the shutdown job.

ErrServerClosed(j) == Err(j, "", "http: Server closed")

\* errors.Is(err, http.ErrServerClosed)
IsServerClosed(err) == err # Nil /\ err[1][3] = "http: Server closed"

\* The error returned as it came, ErrServerClosed included.
HttpStartResultUnfiltered(err) == err

\* if err := ListenAndServe(); !errors.Is(err, ErrServerClosed) { return err }
\* return nil
HttpStartResult(err) == IF IsServerClosed(err) THEN Nil ELSE err

\* ListenAndServe: a server in shutdown refuses with ErrServerClosed;
\* otherwise the port is bound or the bind error comes back.
\* The start job once ListenAndServe has returned err.
HttpReturn(i, err) ==
    /\ httpServeErr' = err
    /\ Return(i, HttpStartResult(err))

HttpListen(i) ==
    /\ i \in JobIds
    /\ Kind(i) = "httpStart"
    /\ pc[i] = "listen"
    /\ IF httpInShutdown
       THEN HttpReturn(i, ErrServerClosed(JobOf(i)))
       ELSE \/ /\ pc' = [pc EXCEPT ![i] = "serve"]
               /\ UNCHANGED <<result, httpServeErr>>
            \/ HttpReturn(i, Err(JobOf(i), "", "listen failed"))
    /\ UNCHANGED <<call, jobs, ctxDone, runVars, wg, errChannel, closed, calls,
                   firstSender, srvVars>>

\* Serve registers the listener, unless the server is in shutdown by now.
HttpServe(i) ==
    /\ i \in JobIds
    /\ Kind(i) = "httpStart"
    /\ pc[i] = "serve"
    /\ IF httpInShutdown
       THEN HttpReturn(i, ErrServerClosed(JobOf(i)))
       ELSE /\ pc' = [pc EXCEPT ![i] = "serving"]
            /\ UNCHANGED <<result, httpServeErr>>
    /\ UNCHANGED <<call, jobs, ctxDone, runVars, wg, errChannel, closed, calls,
                   firstSender, srvVars>>

\* The accept loop ends: ErrServerClosed after Shutdown, the accept error
\* otherwise.
HttpServeReturn(i) ==
    /\ i \in JobIds
    /\ Kind(i) = "httpStart"
    /\ pc[i] = "serving"
    /\ HttpReturn(i, IF httpInShutdown
                     THEN ErrServerClosed(JobOf(i))
                     ELSE Err(JobOf(i), "", "accept failed"))
    /\ UNCHANGED <<call, jobs, ctxDone, runVars, wg, errChannel, closed, calls,
                   firstSender, srvVars>>

\* <-ctx.Done(), then Shutdown(context.Background()) is called: the server
\* enters shutdown and closes its listeners; closing a registered listener
\* may fail, and that error is what Shutdown will return.
HttpStopBegin(i) ==
    /\ i \in JobIds
    /\ Kind(i) = "httpStop"
    /\ pc[i] = "waitctx"
    /\ DoneReceived(ctxDone)
    /\ pc' = [pc EXCEPT ![i] = "stopping"]
    /\ httpInShutdown' = TRUE
    /\ LET listening == \E k \in JobIds :
                            Kind(k) = "httpStart" /\ pc[k] = "serving"
       IN  \E r \in IF listening
                    THEN {Nil, Err(JobOf(i), "", "close failed")}
                    ELSE {Nil} :
              result' = [result EXCEPT ![i] = r]
    /\ UNCHANGED <<call, httpServeErr, jobs, ctxDone, runVars, wg, errChannel, closed, calls, firstSender, grpcStopped, inflight>>

\* Shutdown returns (its context never expires); the job returns its error.
HttpStopEnd(i) ==
    /\ i \in JobIds
    /\ Kind(i) = "httpStop"
    /\ pc[i] = "stopping"
    /\ Return(i, result[i])
    /\ UNCHANGED <<call, httpServeErr, jobs, ctxDone, runVars, wg, errChannel, closed, calls,
                   firstSender, srvVars>>

----------------------------------------------------------------------------
Next ==
    \/ AddBackgroundJob
    \/ Cancel
    \/ RunBegin
    \/ RunSpawn
    \/ RunSelectCancel
    \/ RunSelectFirst
    \/ RunCollect
    \/ RpcBegin
    \/ RpcEnd
    \/ \E i \in AllIds : JobSend(i)
    \/ \E i \in AllIds : UserReturn(i)
    \/ \E i \in AllIds : GrpcListen(i)
    \/ \E i \in AllIds : GrpcServe(i)
    \/ \E i \in AllIds : GrpcServeReturn(i)
    \/ \E i \in AllIds : GrpcStopBegin(i)
    \/ \E i \in AllIds : GrpcStopEnd(i)
    \/ \E i \in AllIds : HttpListen(i)
    \/ \E i \in AllIds : HttpServe(i)
    \/ \E i \in AllIds : HttpServeReturn(i)
    \/ \E i \in AllIds : HttpStopBegin(i)
    \/ \E i \in AllIds : HttpStopEnd(i)

Spec == Init /\ [][Next]_vars

\* The signal arrives before main calls Run: app.ctx is cancelled from the
\* start, so every job returns after the cancellation.
InitCancelled ==
    /\ jobs = BootJobs
    /\ ctxDone = TRUE
    /\ runPc = "idle"
    /\ ranged = <<>>
    /\ errCap = 0
    /\ nextJob = 1
    /\ wg = 0
    /\ errChannel = <<>>
    /\ closed = FALSE
    /\ branch = "none"
    /\ selCancelled = FALSE
    /\ runResult = Nil
    /\ pc = <<>>
    /\ result = <<>>
    /\ calls = <<>>
    /\ firstSender = 0
    /\ grpcStopped = FALSE
    /\ inflight = FALSE
    /\ httpInShutdown = FALSE
    /\ httpServeErr = Nil
    /\ call = NoCall

NextCancelled ==
    \/ AddBackgroundJob
    \/ RunBegin
    \/ RunSpawn
    \/ RunSelectCancel
    \/ RunSelectFirst
    \/ RunCollect
    \/ RpcBegin
    \/ RpcEnd
    \/ \E i \in AllIds : JobSend(i)
    \/ \E i \in AllIds : UserReturn(i)
    \/ \E i \in AllIds : GrpcListen(i)
    \/ \E i \in AllIds : GrpcServe(i)
    \/ \E i \in AllIds : GrpcServeReturn(i)
    \/ \E i \in AllIds : GrpcStopBegin(i)
    \/ \E i \in AllIds : GrpcStopEnd(i)
    \/ \E i \in AllIds : HttpListen(i)
    \/ \E i \in AllIds : HttpServe(i)
    \/ \E i \in AllIds : HttpServeReturn(i)
    \/ \E i \in AllIds : HttpStopBegin(i)
    \/ \E i \in AllIds : HttpStopEnd(i)

SpecCancelled == InitCancelled /\ [][NextCancelled]_vars

----------------------------------------------------------------------------
\* Vocabulary of the properties.

\* job(app.ctx) has returned in goroutine i.
Completed(i) == pc[i] \in {"ret", "done", "panic"}

AllDone == \A j \in JobIds : pc[j] = "done"

Returned == runPc = "returned"

\* C1: if every job returns nil and only after the cancellation, Run returns
\* nil only once all jobs have completed.  Stated for SpecCancelled, where
\* the context is cancelled before any job runs.
C1_NilOnlyAfterAllComplete ==
    (/\ Returned
     /\ runResult = Nil
     /\ \A j \in JobIds : Completed(j) => result[j] = Nil)
    => \A j \in JobIds : Completed(j)

C3_CombinedExact ==
    (Returned /\ branch = "cancel") =>
        /\ AllDone
        /\ Atoms(runResult) = UNION {Atoms(result[j]) : j \in JobIds}
        /\ Len(runResult) = Cardinality({j \in JobIds : result[j] # Nil})
        /\ (runResult = Nil <=> \A j \in JobIds : result[j] = Nil)

\* Run has returned a combination of two errors or more.
C3_Witness == Returned /\ branch = "cancel" /\ Len(runResult) >= 2

\* C4 as stated: whenever Run returns nil, every job has terminated and
\* returned nil.
C4_Original ==
    (Returned /\ runResult = Nil) =>
        \A j \in JobIds : Completed(j) /\ result[j] = Nil

\* C4 amended: a nil return through the cancellation branch means every job
\* has terminated and returned nil; a nil return through the first-completion
\* branch means only that the first job to report returned nil.
C4_NilMeansClean ==
    (Returned /\ runResult = Nil) =>
        \/ branch = "cancel" /\ AllDone /\ \A j \in JobIds : result[j] = Nil
        \/ branch = "first" /\ firstSender # 0 /\ result[firstSender] = Nil

\* Run has returned nil after a shutdown in which every job returned nil.
C4_Witness == Returned /\ runResult = Nil /\ branch = "cancel" /\ AllDone

\* C5: the channel holds as many values as jobs were started, every job sends
\* once, and so a job that has its result can always send it, also after Run
\* has returned through the first-completion branch.
C5_SendNeverBlocks ==
    /\ runPc \notin {"idle", "spawn"} => errCap = Cardinality({j \in JobIds : pc[j] # "none"})
    /\ Len(errChannel) <= errCap
    /\ ~closed =>
          Len(errChannel) + (IF branch = "first" THEN 1 ELSE 0)
            = Cardinality({j \in JobIds : pc[j] = "done"})
    /\ \A i \in JobIds : pc[i] = "ret" => ~closed /\ Len(errChannel) < errCap
    /\ \A i \in JobIds : pc[i] # "panic"

\* Every job has sent its result although Run returned after the first.
C5_Witness ==
    /\ Returned /\ branch = "first" /\ AllDone
    /\ Len(errChannel) = errCap - 1

\* C6: once Run has begun, AddBackgroundJob does not change the registry.
C6_AddAfterStartRejected == [][runPc # "idle" => jobs' = jobs]_vars

\* C7: every job of the registry as Run begins is invoked exactly once, with
\* app.ctx, on either path.
C7_InvokedExactlyOnce ==
    /\ \A j \in JobIds :
          /\ jobs[j] = ranged[j]
          /\ calls[j] = IF j < nextJob THEN <<AppCtx>> ELSE <<>>
    /\ runPc \in {"select", "wait", "returned"} =>
          \A j \in JobIds : calls[j] = <<AppCtx>>

\* Run has returned through the first-completion branch with a job added
\* before it began, each job invoked once.
C7_Witness ==
    /\ Returned /\ branch = "first" /\ Len(ranged) > Len(BootJobs)
    /\ \A j \in JobIds : calls[j] = <<AppCtx>>

\* C8: when a shutdown job has returned an error, a return of Run through
\* the cancellation branch still finds every shutdown job finished, and its
\* result contains that error.
C8_ShutdownErrorCollected ==
    \A i \in JobIds :
        (/\ Kind(i) \in {"grpcStop", "httpStop"}
         /\ Completed(i) /\ result[i] # Nil
         /\ Returned /\ branch = "cancel")
        => /\ Atoms(result[i]) \subseteq Atoms(runResult)
           /\ \A k \in JobIds :
                 Kind(k) \in {"grpcStop", "httpStop"} => pc[k] = "done"

\* The HTTP shutdown failed, the gRPC shutdown finished all the same, and
\* Run returned the failure.
C8_Witness ==
    /\ Returned /\ branch = "cancel"
    /\ \E i, k \in JobIds :
          /\ Kind(i) = "httpStop" /\ result[i] # Nil
          /\ Atoms(result[i]) \subseteq Atoms(runResult)
          /\ Kind(k) = "grpcStop" /\ pc[k] = "done"

\* The stop of a listener has been issued by its shutdown job.
StopIssued(kind) ==
    \E k \in JobIds :
        /\ Kind(k) = kind
        /\ pc[k] \in {"stopping", "ret", "done"}

\* C9 as stated: a start job that has returned has had its stop issued by
\* the paired shutdown job.
C9_Original ==
    \A i \in JobIds :
        /\ (Kind(i) = "grpcStart" /\ Completed(i)) => StopIssued("grpcStop")
        /\ (Kind(i) = "httpStart" /\ Completed(i)) => StopIssued("httpStop")

\* C9 amended: a start job that has returned nil has had its stop issued by
\* the paired shutdown job (a bind or serve failure returns earlier, with an
\* error).
C9_NilOnlyAfterStop ==
    /\ grpcStopped => StopIssued("grpcStop")
    /\ httpInShutdown => StopIssued("httpStop")
    /\ \A i \in JobIds :
          /\ (Kind(i) = "grpcStart" /\ Completed(i) /\ result[i] = Nil)
                => grpcStopped
          /\ (Kind(i) = "httpStart" /\ Completed(i) /\ result[i] = Nil)
                => httpInShutdown

\* Both start jobs have returned nil after their servers were stopped.
C9_Witness ==
    \E i, k \in JobIds :
        /\ Kind(i) = "grpcStart" /\ pc[i] = "done" /\ result[i] = Nil
        /\ Kind(k) = "httpStart" /\ pc[k] = "done" /\ result[k] = Nil
        /\ grpcStopped /\ httpInShutdown

\* C10: whenever the gRPC start job returns out of Serve with the server
\* gracefully stopped, it returns nil.
C10_NoErrorOnGracefulStop ==
    [][\A i \in JobIds :
          (/\ Kind(i) = "grpcStart"
           /\ pc[i] \in {"serve", "serving"}
           /\ grpcStopped
           /\ pc'[i] = "ret")
          => result'[i] = Nil]_vars

----------------------------------------------------------------------------
\* Handler-level calls: the unary interceptor and RequestID, Error, and the
\* /health handler.  They are functions of their arguments; the actions
\* below apply them to every argument of small sets and record the outcome
\* in call.

\* The incoming metadata of a call's context: whether there is any, whether
\* it has the x-request-id key, and the values under that key.
IncomingMDs ==
    {[ok |-> FALSE, has |-> FALSE, vals |-> <<>>],
     [ok |-> TRUE, has |-> FALSE, vals |-> <<>>]}
    \cup {[ok |-> TRUE, has |-> TRUE, vals |-> v] :
             v \in {<<>>, <<"">>, <<"abc">>, <<"abc", "def">>}}

\* What uuid.New().String() can produce: never the empty string.
UUIDs == {"uuid-1", "uuid-2"}

\* headers["x-request-id"][0] of the incoming metadata, "" without one.
HeaderID(md) ==
    IF md.ok /\ md.has /\ Len(md.vals) > 0 THEN md.vals[1] ELSE ""

\* grpcUnaryServerInterceptor: the context it hands to the handler.  The
\* incoming metadata stays what it was; the identifier goes into the
\* outgoing metadata and under requestIDContextKey.
Intercept(md, uuid) ==
    LET requestID == IF HeaderID(md) = "" THEN uuid ELSE HeaderID(md)
    IN  [incoming |-> md, outgoing |-> <<requestID>>, value |-> requestID]

\* app.RequestID(ctx): read from the incoming metadata of ctx.
RequestID(ctx) == HeaderID(ctx.incoming)

\* A unary call passes the interceptor and its handler asks for the id.
InterceptUnary ==
    /\ \E md \in IncomingMDs, u \in UUIDs :
          call' = [op |-> "intercept", md |-> md,
                   ctx |-> Intercept(md, u),
                   lookup |-> RequestID(Intercept(md, u))]
    /\ UNCHANGED supVars

\* C12: the identifier is the inbound header when that is present and not
\* empty and a non-empty generated one otherwise, and the outgoing metadata
\* and RequestID on the handler's context both yield it.
C12_OneIdentifier ==
    call.op = "intercept" =>
        /\ HeaderID(call.md) # "" => call.ctx.value = HeaderID(call.md)
        /\ call.ctx.value # ""
        /\ call.ctx.outgoing = <<call.ctx.value>>
        /\ call.lookup = call.ctx.value

\* Error values of the translator: nil, a plain error with its text, or
\* an error carrying a gRPC status with its code and message.  Texts are
\* sequences of pieces, so that formatting is concatenation.
NilErr == [kind |-> "nil", code |-> "OK", text |-> <<>>]

PlainErr(t) == [kind |-> "plain", code |-> "Unknown", text |-> <<t>>]

\* status.Error(c, msg): nil for codes.OK, otherwise a status error.
StatusError(c, msg) ==
    IF c = "OK" THEN NilErr ELSE [kind |-> "status", code |-> c, text |-> msg]

\* err.Error()
ErrorText(err) ==
    IF err.kind = "status"
    THEN <<"rpc error: code = ", err.code, " desc = ">> \o err.text
    ELSE err.text

\* zap.Error(err): the field named "error".
ZapError(err) == [key |-> "error", val |-> ErrorText(err)]

Codes == {"OK", "NotFound", "InvalidArgument", "Unimplemented", "Internal"}

Errs ==
    {NilErr, PlainErr("boom"), PlainErr("no rows"),
     StatusError("NotFound", <<"missing">>),
     StatusError("Internal", <<"db down">>)}

FieldLists == {<<>>, <<[key |-> "user", val |-> <<"42">>]>>}

\* The severity the translator logs at for a code.
Level(code) ==
    IF code \in {"Internal", "Unimplemented"} THEN "error" ELSE "warn"

\* The translator without its nil check: a nil error prints as <nil>.
ErrorNoNilCheck(err, code, fields) ==
    LET text    == IF err.kind = "nil" THEN <<"<nil>">> ELSE ErrorText(err)
        message == <<code, ": ">> \o text
    IN  [ret  |-> StatusError(code, message),
         logs |-> <<[level |-> Level(code), msg |-> message,
                     fields |-> fields]>>]

\* app.Error of the package's interface: what it returns and what it logs.
Error(err, code, fields) ==
    IF err.kind = "nil" THEN [ret |-> NilErr, logs |-> <<>>]
    ELSE LET message == <<code, ": ">> \o ErrorText(err)
             entry   == [level |-> Level(code), msg |-> message,
                         fields |-> Append(fields, ZapError(err))]
         IN  [ret  |-> IF err.kind = "status"
                       THEN StatusError(err.code, err.text)
                       ELSE StatusError(code, message),
              logs |-> <<entry>>]

\* App.Error of internal/app, the one the service binary links.
AppError(code, err, fields) ==
    IF err.kind = "nil" THEN [ret |-> NilErr, logs |-> <<>>]
    ELSE IF err.kind = "status"
    THEN [ret |-> StatusError(err.code, err.text), logs |-> <<>>]
    ELSE IF code \in {"Internal", "Unimplemented"}
    THEN LET msg == <<code, " error">>
         IN  [ret  |-> StatusError(code, msg),
              logs |-> <<[level |-> "error", msg |-> msg,
                          fields |-> Append(fields, ZapError(err))]>>]
    ELSE LET msg == <<code, ": ">> \o ErrorText(err)
         IN  [ret  |-> StatusError(code, msg),
              logs |-> <<[level |-> "warn", msg |-> msg,
                          fields |-> fields]>>]

\* A handler translates an error with app.Error.
ErrorCall ==
    /\ \E err \in Errs, code \in Codes, fields \in FieldLists :
          call' = [op |-> "Error", err |-> err, code |-> code,
                   fields |-> fields, out |-> Error(err, code, fields)]
    /\ UNCHANGED supVars

\* A handler translates an error with App.Error of internal/app.
AppErrorCall ==
    /\ \E err \in Errs, code \in Codes, fields \in FieldLists :
          call' = [op |-> "AppError", err |-> err, code |-> code,
                   fields |-> fields, out |-> AppError(code, err, fields)]
    /\ UNCHANGED supVars

Translated == call.op \in {"Error", "AppError"}

\* C13: an error that already carries a status comes back unchanged, same
\* code and message whatever the code argument, and a log entry for the
\* original error is still written.
C13_StatusKeptAndLogged ==
    (Translated /\ call.err.kind = "status") =>
        /\ call.out.ret = call.err
        /\ Len(call.out.logs) >= 1
        /\ \E k \in 1..Len(call.out.logs[1].fields) :
              call.out.logs[1].fields[k] = ZapError(call.err)

\* C14: a plain error is logged exactly once, at error severity for
\* Internal and Unimplemented and at warning severity for any other code,
\* and the returned status has the given code and a message made of the
\* code and the error's text.
C14_PlainErrorTranslated ==
    (Translated /\ call.err.kind = "plain") =>
        LET msg == call.out.ret.text
            n   == Len(call.err.text)
        IN  /\ Len(call.out.logs) = 1
            /\ call.out.logs[1].level = Level(call.code)
            /\ call.out.ret.kind = "status"
            /\ call.out.ret.code = call.code
            /\ Len(msg) > n
            /\ msg[1] = call.code
            /\ SubSeq(msg, Len(msg) - n + 1, Len(msg)) = call.err.text

\* C15: a nil error translates to nil and nothing is logged, for every
\* code and every list of fields.
C15_NilStaysNil ==
    (Translated /\ call.err = NilErr) =>
        /\ call.out.ret = NilErr
        /\ call.out.logs = <<>>

\* A nil error was translated with the code of the error severity class
\* and with a field to log.
C15_Witness ==
    /\ call.op = "Error" /\ call.err = NilErr
    /\ call.code = "Internal" /\ call.fields # <<>>
    /\ call.out.ret = NilErr

\* What the data store's Ping can answer when /health is requested.
Pings == {NilErr, PlainErr("connection refused")}

\* The /health handler of internal/app: nothing is written when Ping
\* succeeds, which net/http sends as 200 with an empty body; http.Error
\* writes the error's text and a newline with status 500.
HealthHandler(ping) ==
    IF ping.kind = "nil"
    THEN [status |-> 200, body |-> <<>>]
    ELSE [status |-> 500, body |-> ErrorText(ping) \o <<"\n">>]

\* The /health handler of part_000: its body is a TODO, nothing is checked
\* and nothing is written.
HealthHandlerTodo(ping) == [status |-> 200, body |-> <<>>]

\* GET /health served by internal/app.
HealthCall ==
    /\ \E ping \in Pings :
          call' = [op |-> "health", ping |-> ping, out |-> HealthHandler(ping)]
    /\ UNCHANGED supVars

\* GET /health served by part_000, the data store being in either state.
HealthTodoCall ==
    /\ \E ping \in Pings :
          call' = [op |-> "healthTodo", ping |-> ping,
                   out |-> HealthHandlerTodo(ping)]
    /\ UNCHANGED supVars

\* C16: /health answers 200 when the dependency check succeeds and 500
\* with the check's error text as the body when it fails.
C16_HealthReflectsCheck ==
    call.op \in {"health", "healthTodo"} =>
        /\ call.ping.kind = "nil" => call.out.status = 200
        /\ call.ping.kind # "nil" =>
              /\ call.out.status = 500
              /\ Len(call.out.body) >= Len(ErrorText(call.ping))
              /\ SubSeq(call.out.body, 1, Len(ErrorText(call.ping)))
                    = ErrorText(call.ping)

\* The specification of the handler-level calls.
NextHandlers ==
    \/ InterceptUnary
    \/ ErrorCall
    \/ AppErrorCall
    \/ HealthCall
    \/ HealthTodoCall

SpecHandlers == Init /\ [][NextHandlers]_vars

\* C11: the HTTP start job returns nil exactly when ListenAndServe ended
\* with ErrServerClosed, which only the shutdown job's Shutdown brings
\* about; any other error of ListenAndServe is returned as it is, non-nil.
C11_HttpStartResult ==
    \A i \in JobIds :
        (Kind(i) = "httpStart" /\ Completed(i)) =>
            /\ httpServeErr # Nil
            /\ result[i] = Nil <=> IsServerClosed(httpServeErr)
            /\ IsServerClosed(httpServeErr) =>
                  httpInShutdown /\ StopIssued("httpStop")
            /\ ~IsServerClosed(httpServeErr) => result[i] = httpServeErr

\* The start job has returned nil after ListenAndServe ended with
\* ErrServerClosed.
C11_Witness ==
    \E i \in JobIds :
        /\ Kind(i) = "httpStart" /\ pc[i] = "done"
        /\ result[i] = Nil /\ IsServerClosed(httpServeErr)

\* The shutdown jobs are blocked on the context, or not yet started.
StopsBlocked ==
    \A i \in JobIds :
        Kind(i) \in {"grpcStop", "httpStop"} => pc[i] \in {"none", "waitctx"}

\* C17: the context's cancelled state changes only in a step of the
\* external canceller, in which neither Run nor a job moves; while it is
\* not cancelled the shutdown jobs stay blocked on it; and once Run has
\* returned it does nothing more: it neither waits for the jobs still
\* running nor closes the channel.
C17_CancelledOnlyFromOutside ==
    [][/\ ctxDone' # ctxDone =>
             /\ ~ctxDone /\ ctxDone'
             /\ UNCHANGED <<jobs, runVars, pc, wg, errChannel, closed>>
       /\ ~ctxDone' => StopsBlocked'
       /\ Returned => UNCHANGED <<runVars, closed>>]_vars

\* Run has returned the first result with the context not cancelled: the
\* shutdown jobs wait on the context and a start job is still serving,
\* unwaited for.
C17_Witness ==
    /\ Returned /\ branch = "first" /\ ~ctxDone /\ wg > 0
    /\ \E i \in JobIds : Kind(i) = "grpcStop" /\ pc[i] = "waitctx"
    /\ \E i \in JobIds : Kind(i) = "httpStop" /\ pc[i] = "waitctx"
    /\ \E i \in JobIds : Kind(i) = "grpcStart" /\ pc[i] = "serving"

\* The jobs whose result has been sent into errChannel.
Sent == {j \in JobIds : pc[j] = "done"}

\* C18: through the first-completion branch Run returns the result that
\* was sent into the channel first, whatever was sent after it, and takes
\* exactly one value out of the channel: all the others stay buffered.
C18_EarliestSendReturned ==
    (Returned /\ branch = "first") =>
        /\ firstSender \in Sent
        /\ runResult = result[firstSender]
        /\ Len(errChannel) = Cardinality(Sent) - 1
        /\ \A k \in 1..Len(errChannel) :
              \E j \in Sent \ {firstSender} : errChannel[k] = result[j]

\* Run has returned the first result while a later, different result was
\* already waiting in the channel.
C18_Witness ==
    /\ Returned /\ branch = "first"
    /\ Len(errChannel) >= 1
    /\ runResult = result[firstSender]
    /\ runResult # errChannel[Len(errChannel)]

\* C19: no job ever sends on the closed channel: the channel is closed
\* only on the cancellation branch, only after every job goroutine has
\* sent its result, and never on the first-completion branch.
C19_NoSendAfterClose ==
    /\ \A i \in JobIds : pc[i] # "panic"
    /\ closed => branch = "cancel" /\ wg = 0 /\ Sent = JobIds
    /\ branch = "first" => ~closed

\* The channel has been closed on the cancellation branch after every job,
\* a user job among them, sent its result, one of them an error.
C19_Witness ==
    /\ closed /\ branch = "cancel" /\ Sent = JobIds
    /\ Len(ranged) > Len(BootJobs)
    /\ \E j \in JobIds : result[j] # Nil

----------------------------------------------------------------------------
\* Fair scheduling: the goroutine of Run, and the goroutine of each job,
\* takes a step it can take.  The steps of a job that are up to the world
\* and not to the scheduler (a user job choosing to return, an accept loop
\* failing on its own) are not among them.

RunStep ==
    \/ RunBegin
    \/ RunSpawn
    \/ RunSelectCancel
    \/ RunSelectFirst
    \/ RunCollect

JobStep(i) ==
    \/ JobSend(i)
    \/ GrpcListen(i)
    \/ GrpcServe(i)
    \/ grpcStopped /\ GrpcServeReturn(i)
    \/ GrpcStopBegin(i)
    \/ GrpcStopEnd(i)
    \/ HttpListen(i)
    \/ HttpServe(i)
    \/ httpInShutdown /\ HttpServeReturn(i)
    \/ HttpStopBegin(i)
    \/ HttpStopEnd(i)

FairSpec ==
    /\ Spec
    /\ WF_vars(RunStep)
    /\ \A i \in AllIds : WF_vars(JobStep(i))

\* Every job added through AddBackgroundJob that Run started has returned.
UserJobsReturned ==
    /\ runPc \notin {"idle", "spawn"}
    /\ \A j \in JobIds : Kind(j) = "user" => pc[j] # "running"

\* C20: if the context is eventually cancelled and every job terminates
\* once it is (the user jobs return, the calls in flight finish), Run
\* eventually returns; and if Run has taken the cancellation branch and
\* some job never finishes, Run never returns.
C20_ReturnsIffJobsTerminate ==
    /\ (<>ctxDone /\ <>UserJobsReturned /\ []<>~inflight) => <>Returned
    /\ <>[](branch = "cancel" /\ ~AllDone) => []~Returned

\* Run has returned through the cancellation branch after a graceful stop
\* that had to wait for every job, a user job among them.
C20_Witness ==
    /\ Returned /\ branch = "cancel" /\ AllDone
    /\ grpcStopped /\ httpInShutdown /\ ~inflight
    /\ \E j \in JobIds : Kind(j) = "user"

====
